---- MODULE Spec2Model ----
(***************************************************************************)
(* A model of the bomberquiz-api user subsystem: the in-memory user        *)
(* repository, the authenticate and update-avatar services with their      *)
(* controllers, the auth middleware with its Fastify adapter, and the      *)
(* route table.                                                            *)
(*                                                                         *)
(* Strings that the code trims or lower-cases are sequences of one-        *)
(* character strings, so that trim and toLowerCase are computed.           *)
(* A JavaScript object is a record; an absent key is a key outside the     *)
(* record's DOMAIN.                                                        *)
(***************************************************************************)
EXTENDS Integers, Sequences, FiniteSets, TLC

VARIABLES
    env,        \* process.env.JWT_SECRET, fixed for a run
    users,      \* InMemoryUserRepository.users: the array of stored users
    minusOne,   \* the array's "-1" property, written by updateAvatar on a miss
    ret,        \* the outcome of the last call that ran to completion
    reqs,       \* the creation requests suspended at an await, one per slot
    app,        \* the Fastify instance: configured flag and route table
    http,       \* the HTTP request being dispatched through the route table
    db          \* the users collection of the database, as the schema constrains it

vars == <<env, users, minusOne, ret, reqs, app, http, db>>

----------------------------------------------------------------------------
\* Bounds of the model

MaxUsers == 2       \* at most this many users are created
MaxReq == 2         \* at most this many creation requests are in flight
MaxTick == 3        \* the clock of the database stops at this instant

----------------------------------------------------------------------------
\* Values

\* JavaScript undefined where a sequence of characters is expected
Undefined == <<"<undefined>">>

\* JavaScript undefined where an atomic string is expected
UndefinedStr == "<undefined>"

\* JavaScript null returned by a lookup: the empty sequence of records
Null == <<>>

Emails == {"ana@x", "bob@x"}

Passwords == {"pw1", "pw2"}

\* The ids the store hands out, in order; all of them well-formed
IdPool == <<  <<"1">>, <<"2">>, <<"3">>, <<"4">>  >>

USER_DEFAULT_AVATAR_URL == <<"/", "d">>

USER_DEFAULT_ROLE == "cliente"

----------------------------------------------------------------------------
\* String functions of the JavaScript runtime, on sequences of characters

IsSpace(c) == c = " "

RECURSIVE TrimStart(_)
TrimStart(s) ==
    IF s = <<>> THEN <<>>
    ELSE IF IsSpace(Head(s)) THEN TrimStart(Tail(s)) ELSE s

RECURSIVE TrimEnd(_)
TrimEnd(s) ==
    IF s = <<>> THEN <<>>
    ELSE IF IsSpace(s[Len(s)]) THEN TrimEnd(SubSeq(s, 1, Len(s) - 1)) ELSE s

\* String.prototype.trim
Trim(s) == TrimEnd(TrimStart(s))

LowerChar(c) ==
    CASE c = "A" -> "a"
      [] c = "B" -> "b"
      [] OTHER -> c

\* String.prototype.toLowerCase
ToLowerCase(s) == [i \in DOMAIN s |-> LowerChar(s[i])]

\* JavaScript truthiness of a string-or-undefined value
Truthy(s) == s # Undefined /\ s # <<>>

----------------------------------------------------------------------------
\* InMemoryUserRepository

\* Object rest: the record without the given keys
Omit(obj, keys) == [k \in (DOMAIN obj) \ keys |-> obj[k]]

\* mapUser: const { password, ...userWithoutPassword } = user
MapUserLeaky(user) == user

MapUser(user) == Omit(user, {"password"})

\* Array.prototype.findIndex, 0 standing for the -1 of a miss
RECURSIVE FindIndexFrom(_, _, _, _)
FindIndexFrom(arr, key, value, i) ==
    IF i > Len(arr) THEN 0
    ELSE IF arr[i][key] = value THEN i
    ELSE FindIndexFrom(arr, key, value, i + 1)

FindIndex(arr, key, value) == FindIndexFrom(arr, key, value, 1)

\* crypto.randomUUID(): an id no stored user has; the next one of the pool
NewId(arr) == IdPool[Len(arr) + 1]

\* create: push {...data, id, avatarUrl, role, createdAt, updatedAt}
RepoCreate(arr, data) ==
    Append(arr, [name      |-> data.name,
                 email     |-> data.email,
                 phone     |-> data.phone,
                 birthdate |-> data.birthdate,
                 password  |-> data.password,
                 id        |-> NewId(arr),
                 avatarUrl |-> USER_DEFAULT_AVATAR_URL,
                 role      |-> USER_DEFAULT_ROLE,
                 createdAt |-> Len(arr) + 1,
                 updatedAt |-> Len(arr) + 1])

\* findByEmail that takes "Ana@x" for "ana@x": a match without regard to case
RepoFindByEmailAnyCase(arr, email) ==
    LET Fold(e) == IF e = "Ana@x" THEN "ana@x" ELSE e
        hits == {i \in DOMAIN arr : Fold(arr[i].email) = Fold(email)}
    IN  IF hits = {} THEN Null
        ELSE <<arr[CHOOSE i \in hits : \A j \in hits : i <= j]>>

\* findByEmail: users.find(user => user.email === email) || null
RepoFindByEmail(arr, email) ==
    LET i == FindIndex(arr, "email", email)
    IN  IF i = 0 THEN Null ELSE <<arr[i]>>

\* findById: the mapped user, or null
\* findById that answers with the first stored user whatever the id
RepoFindByIdFirst(arr, id) == IF arr = <<>> THEN Null ELSE <<MapUser(arr[1])>>

RepoFindById(arr, id) ==
    LET i == FindIndex(arr, "id", id)
    IN  IF i = 0 THEN Null ELSE <<MapUser(arr[i])>>

\* list: users.map(user => mapUser(user))
RepoList(arr) == [i \in DOMAIN arr |-> MapUser(arr[i])]

\* updateAvatar that gives the new avatarUrl to every stored user
RepoUpdateAvatarAll(arr, data) ==
    [i \in DOMAIN arr |-> [arr[i] EXCEPT !.avatarUrl = data.avatarUrl]]

\* updateAvatar where index -1 means the last element of the array
RepoUpdateAvatarWrapAround(arr, data) ==
    LET i == FindIndex(arr, "id", data.id)
        k == IF i = 0 THEN Len(arr) ELSE i
    IN  IF k = 0 THEN arr
        ELSE [arr EXCEPT ![k] = [arr[k] EXCEPT !.avatarUrl = data.avatarUrl]]

\* updateAvatar, the array elements: users[updateIndex] = {...users[updateIndex], avatarUrl}
RepoUpdateAvatar(arr, data) ==
    LET i == FindIndex(arr, "id", data.id)
    IN  IF i = 0 THEN arr
        ELSE [arr EXCEPT ![i] = [arr[i] EXCEPT !.avatarUrl = data.avatarUrl]]

\* updateAvatar, the "-1" property: on a miss the write lands on users[-1],
\* which is {...users[-1], avatarUrl}: an object with the avatarUrl key alone
RepoUpdateMinusOne(arr, slot, data) ==
    LET i == FindIndex(arr, "id", data.id)
    IN  IF i = 0 THEN <<[avatarUrl |-> data.avatarUrl]>> ELSE slot

----------------------------------------------------------------------------
\* Application errors and the error-to-HTTP mapper

\* An ApplicationError: an Error that carries its HTTP status code
AppError(name, message, statusCode) ==
    [isError |-> TRUE, isApp |-> TRUE, name |-> name, message |-> message,
     statusCode |-> statusCode]

\* param.charAt(0).toUpperCase() + param.slice(1), on the words the code passes
Capitalize(word) ==
    CASE word = "id" -> "Id"
      [] word = "token" -> "Token"
      [] word = "formato inválido" -> "Formato inválido"
      [] word = "não fornecido" -> "Não fornecido"
      [] word = "inválido ou expirado" -> "Inválido ou expirado"
      [] OTHER -> word

\* new InvalidCredentialsError(): no reason given, status 401
InvalidCredentialsError ==
    AppError("InvalidCredentialsError", "Credenciais inválidas: Email/Senha.", 401)

\* new UnregisteredParamError(param): status 404
UnregisteredParamError(param) ==
    AppError("UnregisteredParamError",
             "Não foram encontrados registros para esse(a) " \o Capitalize(param) \o ".",
             404)

\* new MissingParamError(param): status 400
MissingParamError(param) ==
    AppError("MissingParamError",
             "Parâmetro obrigatório não informado: " \o param, 400)

\* new InvalidParamError(param, reason): status 400
InvalidParamError(param, reason) ==
    AppError("InvalidParamError",
             "Parâmetro inválido: " \o Capitalize(param) \o ". " \o
                 Capitalize(reason) \o ".",
             400)

\* new DuplicateResourceError(resource): status 409
DuplicateResourceError(resource) ==
    AppError("DuplicateResourceError", resource \o " já cadastrado no sistema", 409)

\* new ServerError(error): status 500, wraps the error's message
ServerError(error) ==
    AppError("ServerError", "Erro inesperado do servidor. " \o error.message, 500)

\* new Error(message)
PlainError(message) ==
    [isError |-> TRUE, isApp |-> FALSE, name |-> "Error", message |-> message]

\* a thrown object that is no Error: { message }
NonErrorObject(message) ==
    [isError |-> FALSE, isApp |-> FALSE, message |-> message]

\* ok(data): 200
Ok(data) ==
    [statusCode |-> 200, body |-> [success |-> TRUE, data |-> data]]

\* created(): 201
Created ==
    [statusCode |-> 201, body |-> [success |-> TRUE]]

\* handleError(error): the declared status of an application error, else 500
HandleError(error) ==
    [statusCode |-> IF error.isApp THEN error.statusCode ELSE 500,
     body |-> [success |-> FALSE, errorMessage |-> error.message]]

----------------------------------------------------------------------------
\* Providers

\* Argon2Hash.hash
Hash(plain) == "argon2$" \o plain

\* Argon2Hash.compare(plain, hashed)
HashCompare(plain, hashed) == hashed = Hash(plain)

DefaultExpiresIn == 86400

\* JsonWebTokenProvider.sign: jwt.sign(payload, secretKey, { expiresIn })
JwtSign(payload, secretKey) ==
    [payload |-> payload, key |-> secretKey, expiresIn |-> DefaultExpiresIn]

\* makeAuthenticateService: process.env.JWT_SECRET || default
LoginSecret(e) ==
    IF e.JWT_SECRET = UndefinedStr \/ e.JWT_SECRET = ""
    THEN "b71d6620ed1f14726f299763bbeaff4a23d2a427"
    ELSE e.JWT_SECRET

\* makeAuthMiddleware: process.env.JWT_SECRET || default
MiddlewareSecret(e) ==
    IF e.JWT_SECRET = UndefinedStr \/ e.JWT_SECRET = ""
    THEN "your_default_jwt_secret_key"
    ELSE e.JWT_SECRET

----------------------------------------------------------------------------
\* Failures of a dependency (repository, provider, sanitizer, validator)

NoFault == [at |-> "none"]

\* the values a dependency may throw or reject with
Thrown ==
    { DuplicateResourceError("Avatar"),
      PlainError("Erro inesperado"),
      NonErrorObject("Erro inesperado") }

FaultsAt(points) == {NoFault} \cup [at: points, value: Thrown]

Call(fn, arg) == [fn |-> fn, arg |-> arg]

Resolved(calls, value) == [calls |-> calls, kind |-> "resolved", value |-> value]

Rejected(calls, error) == [calls |-> calls, kind |-> "rejected", error |-> error]

----------------------------------------------------------------------------
\* AuthenticateService and AuthenticateController

\* authenticate, after findByEmail found the user: compare, sign, strip
\* loggerProvider.error(..., {error: {name, message, stack}}): the three
\* properties read off the caught value, undefined where it has none
LogError(error) ==
    Call("error", [name |-> IF "name" \in DOMAIN error THEN error.name ELSE UndefinedStr,
                   message |-> error.message,
                   stack |-> IF error.isError THEN "<stack>" ELSE UndefinedStr])

\* a catch block that rethrows the error wrapped in a ServerError
LogAndWrap(outcome) ==
    Rejected(Append(outcome.calls, LogError(outcome.error)), ServerError(outcome.error))

\* a catch block that rethrows without logging
RethrowSilently(outcome) == Rejected(outcome.calls, outcome.error)

\* the catch block: the error log, then the same error rethrown
LogAndRethrow(outcome) ==
    Rejected(Append(outcome.calls, LogError(outcome.error)), outcome.error)

\* the rest of authenticate with the token signed before the password is compared
AuthenticateSignFirst(user, data, fault, secretKey, calls0) ==
    LET payload == [userId |-> user.id, role |-> user.role]
        calls1 == Append(calls0, Call("sign", payload))
        calls2 == Append(calls1, Call("compare", <<data.password, user.password>>))
    IN  IF fault.at = "sign"
        THEN LogAndRethrow(Rejected(calls1, fault.value))
        ELSE IF fault.at = "compare"
        THEN LogAndRethrow(Rejected(calls2, fault.value))
        ELSE IF ~HashCompare(data.password, user.password)
        THEN LogAndRethrow(Rejected(calls2, InvalidCredentialsError))
        ELSE Resolved(Append(calls2, Call("info", user.id)),
                      [user |-> Omit(user, {"password"}),
                       accessToken |-> JwtSign(payload, secretKey)])

\* authenticate once the user is found: compare, sign, info
AuthenticateFound(user, data, fault, secretKey, calls0) ==
    LET calls1 == Append(calls0, Call("compare", <<data.password, user.password>>))
        payload == [userId |-> user.id, role |-> user.role]
        calls2 == Append(calls1, Call("sign", payload))
    IN  IF fault.at = "compare"
        THEN LogAndRethrow(Rejected(calls1, fault.value))
        ELSE IF ~HashCompare(data.password, user.password)
        THEN LogAndRethrow(Rejected(calls1, InvalidCredentialsError))
        ELSE IF fault.at = "sign"
        THEN LogAndRethrow(Rejected(calls2, fault.value))
        ELSE Resolved(Append(calls2, Call("info", user.id)),
                      [user |-> Omit(user, {"password"}),
                       accessToken |-> JwtSign(payload, secretKey)])

\* authenticate with a "no such user" error of its own for an unknown email
AuthenticateTelling(arr, data, fault, secretKey) ==
    LET calls0 == << Call("debug", data.email), Call("findByEmail", data.email) >>
        found == RepoFindByEmail(arr, data.email)
    IN  IF fault.at = "findByEmail"
        THEN LogAndRethrow(Rejected(calls0, fault.value))
        ELSE IF found = Null
        THEN LogAndRethrow(Rejected(calls0, UnregisteredParamError("email")))
        ELSE AuthenticateFound(found[1], data, fault, secretKey, calls0)

\* authenticate: debug, findByEmail, then the rest; every error is logged and rethrown
Authenticate(arr, data, fault, secretKey) ==
    LET calls0 == << Call("debug", data.email), Call("findByEmail", data.email) >>
        found == RepoFindByEmail(arr, data.email)
    IN  IF fault.at = "findByEmail"
        THEN LogAndRethrow(Rejected(calls0, fault.value))
        ELSE IF found = Null
        THEN LogAndRethrow(Rejected(calls0, InvalidCredentialsError))
        ELSE AuthenticateFound(found[1], data, fault, secretKey, calls0)

\* undefined or null where an object is expected
NoObject == [absent |-> TRUE]

\* a request without a body
NoBody == NoObject

\* the negation of !request.body
HasBody(request) == request.body # NoBody

\* the error a service call rejected with, NoObject when it resolved
RejectionOf(outcome) ==
    IF outcome.kind = "rejected" THEN outcome.error ELSE NoObject

\* handle with the try/catch left out: a rejection of the service escapes
AuthenticateHandleNoCatch(arr, request, fault, secretKey) ==
    IF ~HasBody(request)
    THEN [calls |-> <<>>, threw |-> FALSE, rejection |-> NoObject,
          response |-> HandleError(MissingParamError("corpo da requisição não informado"))]
    ELSE LET r == Authenticate(arr, [email |-> request.body.email,
                                     password |-> request.body.password],
                               fault, secretKey)
         IN  [calls |-> r.calls, threw |-> r.kind = "rejected",
              rejection |-> RejectionOf(r),
              response |-> IF r.kind = "resolved" THEN Ok(r.value) ELSE NoObject]

\* handle that refuses a body without email or password as a missing parameter
AuthenticateHandleRequiringFields(arr, request, fault, secretKey) ==
    IF ~HasBody(request)
    THEN [calls |-> <<>>, threw |-> FALSE, rejection |-> NoObject,
          response |-> HandleError(MissingParamError("corpo da requisição não informado"))]
    ELSE IF request.body.email = UndefinedStr \/ request.body.password = UndefinedStr
    THEN [calls |-> <<>>, threw |-> FALSE, rejection |-> NoObject,
          response |-> HandleError(MissingParamError("email"))]
    ELSE LET r == Authenticate(arr, [email |-> request.body.email,
                                     password |-> request.body.password],
                               fault, secretKey)
         IN  [calls |-> r.calls, threw |-> FALSE, rejection |-> RejectionOf(r),
              response |-> IF r.kind = "resolved" THEN Ok(r.value)
                           ELSE HandleError(r.error)]

\* AuthenticateController.handle
AuthenticateHandle(arr, request, fault, secretKey) ==
    IF ~HasBody(request)
    THEN [calls |-> <<>>, threw |-> FALSE, rejection |-> NoObject,
          response |-> HandleError(MissingParamError("corpo da requisição não informado"))]
    ELSE LET r == Authenticate(arr, [email |-> request.body.email,
                                     password |-> request.body.password],
                               fault, secretKey)
         IN  [calls |-> r.calls, threw |-> FALSE, rejection |-> RejectionOf(r),
              response |-> IF r.kind = "resolved" THEN Ok(r.value)
                           ELSE HandleError(r.error)]

----------------------------------------------------------------------------
\* UserAvatarDataSanitizer

\* the object {}
EmptyObject == [k \in {} |-> Undefined]

\* obj[key], undefined when the key is absent
Get(obj, key) == IF key \in DOMAIN obj THEN obj[key] ELSE Undefined

\* a primitive passed where the avatar data is expected; the value is written
\* as its characters
Primitive(type, value) == [prim |-> type, value |-> value]

\* the negation of !userAvatarData
TruthyInput(data) ==
    IF "prim" \in DOMAIN data
    THEN CASE data.prim = "string" -> data.value # <<>>
           [] data.prim = "number" -> data.value # <<"0">>
           [] data.prim = "boolean" -> data.value = <<"true">>
           [] OTHER -> FALSE
    ELSE data # NoObject

\* what {...userAvatarData} copies: the fields of an object, the indexed
\* characters of a string, nothing of a number or a boolean
OwnProps(data) ==
    IF "prim" \in DOMAIN data
    THEN IF data.prim = "string"
         THEN [k \in {ToString(i - 1) : i \in DOMAIN data.value} |->
                 LET i == CHOOSE j \in DOMAIN data.value : ToString(j - 1) = k
                 IN  <<data.value[i]>>]
         ELSE EmptyObject
    ELSE data

\* sanitizeId that drops the first character instead of trimming
SanitizeIdBehead(id) == IF ~Truthy(id) THEN <<>> ELSE Tail(id)

\* sanitizeId that lower-cases the id as well
SanitizeIdLowerCase(id) == IF ~Truthy(id) THEN <<>> ELSE ToLowerCase(Trim(id))

\* sanitizeId: "" for a falsy id, else id.trim()
SanitizeId(id) == IF ~Truthy(id) THEN <<>> ELSE Trim(id)

\* sanitizeAvatarUrl that trims and leaves the case alone
SanitizeAvatarUrlKeepCase(avatarUrl) ==
    IF ~Truthy(avatarUrl) THEN <<>> ELSE Trim(avatarUrl)

\* sanitizeAvatarUrl: "" for a falsy url, else url.trim().toLowerCase()
SanitizeAvatarUrl(avatarUrl) ==
    IF ~Truthy(avatarUrl) THEN <<>> ELSE ToLowerCase(Trim(avatarUrl))

\* sanitize: {} for no data, else {...data, id, avatarUrl}
Sanitize(data) ==
    IF ~TruthyInput(data) THEN EmptyObject
    ELSE LET own == OwnProps(data)
         IN  [k \in (DOMAIN own) \cup {"id", "avatarUrl"} |->
                CASE k = "id" -> SanitizeId(Get(own, "id"))
                  [] k = "avatarUrl" -> SanitizeAvatarUrl(Get(own, "avatarUrl"))
                  [] OTHER -> own[k]]

----------------------------------------------------------------------------
\* MongoIdValidatorAdapter and UserAvatarDataValidator

Digits == {"0", "1", "2", "3", "4", "5", "6", "7", "8", "9"}

\* ObjectId.isValid(id): a non-empty string of (hexadecimal) digits
IdValid(id) == id # <<>> /\ \A i \in DOMAIN id : id[i] \in Digits

\* validate, the existence check: findById, then UnregisteredParamError("id")
ValidateExistsLax(arr, data, fault, calls0) ==
    Resolved(Append(calls0, Call("findById", data.id)), TRUE)

ValidateExists(arr, data, fault, calls0) ==
    LET calls1 == Append(calls0, Call("findById", data.id))
    IN  IF fault.at = "findById" THEN Rejected(calls1, fault.value)
        ELSE IF RepoFindById(arr, data.id) = Null
        THEN Rejected(calls1, UnregisteredParamError("id"))
        ELSE Resolved(calls1, TRUE)

\* validate that checks the id format before the presence of the fields
ValidateFormatFirst(arr, data, fault, calls0) ==
    LET calls1 == Append(calls0, Call("idValidator", Get(data, "id")))
    IN  IF fault.at = "idValidator" THEN Rejected(calls1, fault.value)
        ELSE IF ~IdValid(Get(data, "id"))
        THEN Rejected(calls1, InvalidParamError("id", "formato inválido"))
        ELSE IF ~Truthy(Get(data, "avatarUrl"))
        THEN Rejected(calls1, MissingParamError("avatar"))
        ELSE ValidateExists(arr, data, fault, calls1)

\* validate: presence of id, presence of avatarUrl, id format, existence
Validate(arr, data, fault, calls0) ==
    LET calls1 == Append(calls0, Call("idValidator", Get(data, "id")))
    IN  IF ~Truthy(Get(data, "id")) THEN Rejected(calls0, MissingParamError("Id"))
        ELSE IF ~Truthy(Get(data, "avatarUrl"))
        THEN Rejected(calls0, MissingParamError("avatar"))
        ELSE IF fault.at = "idValidator" THEN Rejected(calls1, fault.value)
        ELSE IF ~IdValid(data.id)
        THEN Rejected(calls1, InvalidParamError("id", "formato inválido"))
        ELSE ValidateExists(arr, data, fault, calls1)

----------------------------------------------------------------------------
\* UserUpdateAvatarService and UserUpdateAvatarController

\* the outcome of a service call together with the store it leaves
WithStore(outcome, arr, slot) ==
    [calls |-> outcome.calls, kind |-> outcome.kind,
     error |-> IF outcome.kind = "rejected" THEN outcome.error ELSE NoObject,
     users |-> arr, minusOne |-> slot]

\* the persist step with a repository that writes and then rejects
PersistWritesFirst(arr, slot, sanitized, fault, calls0) ==
    LET calls1 == Append(Append(calls0, Call("debug", "validated")),
                         Call("updateAvatar", sanitized))
    IN  IF fault.at = "updateAvatar"
        THEN WithStore(LogAndRethrow(Rejected(calls1, fault.value)),
                       RepoUpdateAvatar(arr, sanitized), slot)
        ELSE WithStore(Resolved(Append(calls1, Call("info", sanitized.id)), TRUE),
                       RepoUpdateAvatar(arr, sanitized),
                       RepoUpdateMinusOne(arr, slot, sanitized))

\* updateAvatar, after validate resolved: debug, repository.updateAvatar, info
Persist(arr, slot, sanitized, fault, calls0) ==
    LET calls1 == Append(Append(calls0, Call("debug", "validated")),
                         Call("updateAvatar", sanitized))
    IN  IF fault.at = "updateAvatar"
        THEN WithStore(LogAndRethrow(Rejected(calls1, fault.value)), arr, slot)
        ELSE WithStore(Resolved(Append(calls1, Call("info", sanitized.id)), TRUE),
                       RepoUpdateAvatar(arr, sanitized),
                       RepoUpdateMinusOne(arr, slot, sanitized))

\* updateAvatar that validates the sanitized data but persists the raw input
UpdateAvatarServiceRaw(arr, slot, data, fault) ==
    LET calls0 == << Call("debug", Get(data, "id")), Call("sanitize", data) >>
        sanitized == Sanitize(data)
        calls1 == Append(Append(calls0, Call("trace", sanitized)),
                         Call("validate", sanitized))
        v == Validate(arr, sanitized, fault, calls1)
    IN  IF fault.at = "sanitize"
        THEN WithStore(LogAndRethrow(Rejected(calls0, fault.value)), arr, slot)
        ELSE IF v.kind = "rejected" THEN WithStore(LogAndRethrow(v), arr, slot)
        ELSE Persist(arr, slot, data, fault, v.calls)

\* updateAvatar: debug, sanitize, trace, validate, persist; errors logged and rethrown
UpdateAvatarService(arr, slot, data, fault) ==
    LET calls0 == << Call("debug", Get(data, "id")), Call("sanitize", data) >>
        sanitized == Sanitize(data)
        calls1 == Append(Append(calls0, Call("trace", sanitized)),
                         Call("validate", sanitized))
        v == Validate(arr, sanitized, fault, calls1)
    IN  IF fault.at = "sanitize"
        THEN WithStore(LogAndRethrow(Rejected(calls0, fault.value)), arr, slot)
        ELSE IF v.kind = "rejected" THEN WithStore(LogAndRethrow(v), arr, slot)
        ELSE Persist(arr, slot, sanitized, fault, v.calls)

\* handle with the body check left out: the service gets {...undefined}, that is {}
UserUpdateAvatarHandleUnchecked(arr, slot, request, fault) ==
    LET r == UpdateAvatarService(arr, slot,
                                 IF HasBody(request) THEN request.body ELSE EmptyObject,
                                 fault)
    IN  [calls |-> r.calls, threw |-> FALSE, rejection |-> r.error,
         users |-> r.users, minusOne |-> r.minusOne,
         response |-> IF r.kind = "resolved" THEN Created
                      ELSE HandleError(r.error)]

\* UserUpdateAvatarController.handle
UserUpdateAvatarHandle(arr, slot, request, fault) ==
    IF ~HasBody(request)
    THEN [calls |-> <<>>, threw |-> FALSE, rejection |-> NoObject,
          users |-> arr, minusOne |-> slot,
          response |-> HandleError(MissingParamError("corpo da requisição não informado"))]
    ELSE LET r == UpdateAvatarService(arr, slot, request.body, fault)
         IN  [calls |-> r.calls, threw |-> FALSE, rejection |-> r.error,
              users |-> r.users, minusOne |-> r.minusOne,
              response |-> IF r.kind = "resolved" THEN Created
                           ELSE HandleError(r.error)]

----------------------------------------------------------------------------
\* Inputs

CreateInputs ==
    [name: {"n"}, email: Emails, phone: {"p"}, birthdate: {"b"},
     password: Passwords]

\* login requests: no body, both fields, and bodies that lack the email, the
\* password or both (a field that is absent reads as undefined)
LoginRequests ==
    {[body |-> NoBody]} \cup
    {[body |-> b] : b \in [email: Emails, password: Passwords]} \cup
    {[body |-> [email |-> UndefinedStr, password |-> "pw1"]],
     [body |-> [email |-> "ana@x", password |-> UndefinedStr]],
     [body |-> [email |-> UndefinedStr, password |-> UndefinedStr]]}

LoginFaults == FaultsAt({"findByEmail", "compare", "sign"})

\* avatar urls as a client may send them
RawUrls == { <<" ", "A", " ">>, <<"b">>, <<" ">> }

\* ids as a client may send them: padded, plain, unknown, malformed, empty
RawIds == { <<" ", "1", " ">>, <<"2">>, <<"4">>, <<"x">>, <<>> }

AvatarRequests ==
    {[body |-> NoBody]} \cup
    {[body |-> b] : b \in [id: RawIds, avatarUrl: RawUrls]} \cup
    {[body |-> [id |-> <<"1">>]], [body |-> [avatarUrl |-> <<"b">>]]}

AvatarFaults == FaultsAt({"sanitize", "idValidator", "findById", "updateAvatar"})

----------------------------------------------------------------------------
\* Initial values

NoRet == [op |-> "none"]

IdleReq == [kind |-> "none", pc |-> "idle"]

NoHttp == [phase |-> "none"]

NoApp == [configured |-> FALSE, routes |-> {}]

Init ==
    /\ env \in [JWT_SECRET: {UndefinedStr, "s3cret"}]
    /\ users = <<>>
    /\ minusOne = <<>>
    /\ ret = NoRet
    /\ reqs = [r \in 1..MaxReq |-> IdleReq]
    /\ app = NoApp
    /\ http = NoHttp
    /\ db = <<>>

----------------------------------------------------------------------------
\* UserCreateService and UserCreateController

\* UserUniqueEmailValidator.validate: findByEmail, then DuplicateResourceError
UniqueEmailValidate(arr, email) ==
    LET calls == << Call("findByEmail", email) >>
    IN  IF RepoFindByEmail(arr, email) # Null
        THEN Rejected(calls, DuplicateResourceError("Email"))
        ELSE Resolved(calls, TRUE)

\* the data the service hands to repository.create: the password hashed
WithHashedPassword(data) == [data EXCEPT !.password = Hash(data.password)]

\* UserCreateController.handle around a service call that ran without a gap
UserCreateHandle(arr, request) ==
    LET v == UniqueEmailValidate(arr, request.body.email)
    IN  [calls |-> v.calls, threw |-> FALSE, rejection |-> RejectionOf(v),
         users |-> IF v.kind = "resolved"
                   THEN RepoCreate(arr, WithHashedPassword(request.body))
                   ELSE arr,
         response |-> IF v.kind = "resolved" THEN Created
                      ELSE HandleError(v.error)]

----------------------------------------------------------------------------
\* Requests handled one after another: a request arrives when the response
\* to the one before it has been sent

\* what a handler left behind: the request, the calls it made, its response
Outcome(op, request, fault, h) ==
    [op |-> op, request |-> request, fault |-> fault, calls |-> h.calls,
     threw |-> h.threw, rejection |-> h.rejection, response |-> h.response]

\* POST /api/users
Register(data) ==
    /\ ret = NoRet
    /\ Len(users) < MaxUsers
    /\ LET h == UserCreateHandle(users, [body |-> data])
       IN  /\ users' = h.users
           /\ ret' = Outcome("create", [body |-> data], NoFault, h)
    /\ UNCHANGED <<env, db, minusOne, reqs, app, http>>

\* POST /api/auth/login
Login(request, fault) ==
    /\ ret = NoRet
    /\ ret' = Outcome("login", request, fault,
                      AuthenticateHandle(users, request, fault, LoginSecret(env)))
    /\ UNCHANGED <<env, db, users, minusOne, reqs, app, http>>

\* PATCH /api/users/avatar
UpdateAvatar(request, fault) ==
    /\ ret = NoRet
    /\ LET h == UserUpdateAvatarHandle(users, minusOne, request, fault)
       IN  /\ users' = h.users
           /\ minusOne' = h.minusOne
           /\ ret' = Outcome("updateAvatar", request, fault, h)
    /\ UNCHANGED <<env, db, reqs, app, http>>

\* the route adapter sends the response; the next request may come
Respond ==
    /\ ret # NoRet
    /\ ret' = NoRet
    /\ UNCHANGED <<env, db, users, minusOne, reqs, app, http>>

Next ==
    \/ Respond
    \/ \E data \in CreateInputs : Register(data)
    \/ \E request \in LoginRequests, fault \in LoginFaults : Login(request, fault)
    \/ \E request \in AvatarRequests, fault \in AvatarFaults :
          UpdateAvatar(request, fault)

Spec == Init /\ [][Next]_vars

UnknownIdRequest(o, arr) ==
    /\ o.op = "updateAvatar"
    /\ HasBody(o.request)
    /\ o.fault.at \notin {"sanitize", "idValidator", "findById"}
    /\ LET id == Sanitize(o.request.body).id
       IN  Truthy(id) /\ IdValid(id) /\ FindIndex(arr, "id", id) = 0

\* the avatar url of an avatar request is non-empty after sanitizing
HasAvatarUrl(o) == Truthy(Sanitize(o.request.body).avatarUrl)

\* the response of an UnregisteredParamError for the id, no updateAvatar call
RefusedAsUnregistered(o) ==
    /\ o.response =
         [statusCode |-> 404,
          body |-> [success |-> FALSE,
                    errorMessage |->
                        "Não foram encontrados registros para esse(a) Id."]]
    /\ \A i \in DOMAIN o.calls : o.calls[i].fn # "updateAvatar"

\* C8 as stated: every avatar update whose id is present and well-formed but
\* matches no stored user fails with UnregisteredParamError (404), does not
\* call repository.updateAvatar and leaves the stored users unchanged.
C8_AsStated ==
    [][ UnknownIdRequest(ret', users)
          => (RefusedAsUnregistered(ret') /\ users' = users /\ minusOne' = minusOne)
      ]_vars

\* C8: an avatar update whose id is present and well-formed but matches no
\* stored user, and whose avatar url is non-empty after sanitizing, fails with
\* UnregisteredParamError (404, "Não foram encontrados registros para esse(a)
\* Id."), does not call repository.updateAvatar and leaves the store unchanged.
C8_UnknownIdRefused ==
    [][ (UnknownIdRequest(ret', users) /\ HasAvatarUrl(ret'))
          => (RefusedAsUnregistered(ret') /\ users' = users /\ minusOne' = minusOne)
      ]_vars

\* an avatar update for an unknown id was refused with 404 while users are stored
C8_Witness ==
    /\ UnknownIdRequest(ret, users)
    /\ HasAvatarUrl(ret)
    /\ ret.response.statusCode = 404
    /\ users # <<>>

C10_HandleNeverThrows ==
    ret.op \in {"login", "updateAvatar", "create"} =>
        /\ ~ret.threw
        /\ ret.rejection # NoObject =>
              /\ ret.response.body.success = FALSE
              /\ ret.response.statusCode =
                    IF ret.rejection.isApp THEN ret.rejection.statusCode ELSE 500
              /\ (ret.rejection.isApp /\ ret.rejection.name = "DuplicateResourceError")
                    => ret.response.statusCode = 409

\* a login whose service rejected with a non-Error object was answered 500
C10_Witness ==
    /\ ret.op = "login"
    /\ ret.rejection = NonErrorObject("Erro inesperado")
    /\ ~ret.threw
    /\ ret.response.statusCode = 500

\* the positions in the call trace of the last request where fn was called
CallsOf(fn) == {i \in DOMAIN ret.calls : ret.calls[i].fn = fn}

\* the data the last avatar request's validator was called with
Validated == ret.calls[CHOOSE i \in CallsOf("validate") : TRUE].arg

\* C15: validate checks presence of id (else MissingParamError "Id"), presence
\* of avatarUrl (else MissingParamError "avatar"), the id format via
\* idValidator, then existence via findById (else UnregisteredParamError "id"),
\* in that order, and stops at the first failure: idValidator is not called
\* when a field is missing, findById is not called when the format check
\* throws, and only the earliest failing check's error is reported.
C15_ChecksInOrder ==
    (ret.op = "updateAvatar" /\ CallsOf("validate") # {}) =>
    LET id == Get(Validated, "id")
        avatarUrl == Get(Validated, "avatarUrl")
    IN  /\ Cardinality(CallsOf("idValidator")) <= 1
        /\ Cardinality(CallsOf("findById")) <= 1
        /\ \A i \in CallsOf("idValidator") : \A j \in CallsOf("findById") : i < j
        /\ IF ~Truthy(id)
           THEN /\ ret.rejection = MissingParamError("Id")
                /\ CallsOf("idValidator") = {} /\ CallsOf("findById") = {}
           ELSE IF ~Truthy(avatarUrl)
           THEN /\ ret.rejection = MissingParamError("avatar")
                /\ CallsOf("idValidator") = {} /\ CallsOf("findById") = {}
           ELSE /\ \E i \in CallsOf("idValidator") : ret.calls[i].arg = id
                /\ IF ret.fault.at = "idValidator"
                   THEN ret.rejection = ret.fault.value /\ CallsOf("findById") = {}
                   ELSE IF ~IdValid(id)
                   THEN /\ ret.rejection = InvalidParamError("id", "formato inválido")
                        /\ CallsOf("findById") = {}
                   ELSE /\ \E j \in CallsOf("findById") : ret.calls[j].arg = id
                        /\ ret.fault.at = "findById" => ret.rejection = ret.fault.value
                        /\ (ret.fault.at # "findById" /\ RepoFindById(users, id) = Null)
                              => ret.rejection = UnregisteredParamError("id")

\* a request whose url is blank and whose id is malformed and unregistered was
\* refused for the missing avatar alone, the id never looked at
C15_Witness ==
    /\ ret.op = "updateAvatar"
    /\ ret.request.body = [id |-> <<"x">>, avatarUrl |-> <<" ">>]
    /\ CallsOf("validate") # {}
    /\ ret.rejection = MissingParamError("avatar")
    /\ CallsOf("idValidator") = {} /\ CallsOf("findById") = {}

\* C16: whenever a step of authenticate or updateAvatar throws or rejects, the
\* service logs one error carrying that error's name, message and stack as its
\* last act and rejects with the very same error, unwrapped and unmodified: a
\* step that was reached and failed with some value makes the service reject
\* with that value, and no service call ends without either resolving or
\* having logged the error it rejects with.
C16_LoggedAndRethrown ==
    (ret.op \in {"login", "updateAvatar"} /\ ret.calls # <<>>) =>
    /\ ret.rejection = NoObject => CallsOf("error") = {}
    /\ ret.rejection # NoObject =>
          /\ CallsOf("error") = {Len(ret.calls)}
          /\ ret.calls[Len(ret.calls)] =
                Call("error",
                     [name |-> IF ret.rejection.isError THEN ret.rejection.name
                               ELSE UndefinedStr,
                      message |-> ret.rejection.message,
                      stack |-> IF ret.rejection.isError THEN "<stack>"
                                ELSE UndefinedStr])
    /\ (ret.fault.at # "none" /\ CallsOf(ret.fault.at) # {}) =>
          /\ ret.rejection = ret.fault.value
          /\ \A i \in CallsOf(ret.fault.at) : \A j \in DOMAIN ret.calls :
                j > i => ret.calls[j].fn = "error"

\* the repository lookup of an avatar update rejected with an object that is
\* no Error; the service logged it and rejected with that very object
C16_Witness ==
    /\ ret.op = "updateAvatar"
    /\ ret.fault = [at |-> "findById", value |-> NonErrorObject("Erro inesperado")]
    /\ CallsOf("findById") # {}
    /\ ret.calls[Len(ret.calls)].fn = "error"
    /\ ret.calls[Len(ret.calls)].arg.message = "Erro inesperado"
    /\ ret.rejection = NonErrorObject("Erro inesperado")

\* the argument of the one call of fn in the last request's trace
ArgOf(fn) == ret.calls[CHOOSE i \in CallsOf(fn) : TRUE].arg

\* C19: updateAvatar sanitizes, validates, persists, in that order: validate
\* is called only with the sanitizer's output, repository.updateAvatar only
\* after validate has resolved and only with that same sanitized data, never
\* the raw input, and never when the sanitizer throws or the validator rejects.
C19_SanitizeValidatePersist ==
    (ret.op = "updateAvatar" /\ ret.calls # <<>>) =>
    /\ Cardinality(CallsOf("sanitize")) = 1
    /\ Cardinality(CallsOf("validate")) <= 1
    /\ Cardinality(CallsOf("updateAvatar")) <= 1
    /\ ArgOf("sanitize") = ret.request.body
    /\ \A s \in CallsOf("sanitize") : \A v \in CallsOf("validate") :
          s < v /\ ret.calls[v].arg = Sanitize(ret.calls[s].arg)
    /\ CallsOf("validate") = {} <=> ret.fault.at = "sanitize"
    /\ \A u \in CallsOf("updateAvatar") :
          /\ \E v \in CallsOf("validate") : v < u /\ ret.calls[u].arg = ret.calls[v].arg
          /\ ret.calls[u].arg = Sanitize(ret.request.body)
    /\ CallsOf("updateAvatar") # {} <=>
          /\ ret.fault.at \notin {"sanitize", "idValidator", "findById"}
          /\ Truthy(Get(Sanitize(ret.request.body), "id"))
          /\ Truthy(Get(Sanitize(ret.request.body), "avatarUrl"))
          /\ IdValid(Sanitize(ret.request.body).id)
          /\ RepoFindById(users, Sanitize(ret.request.body).id) # Null

\* a padded, upper-case request reached the repository trimmed and lower-cased
C19_Witness ==
    /\ ret.op = "updateAvatar"
    /\ ret.request.body = [id |-> <<" ", "1", " ">>, avatarUrl |-> <<" ", "A", " ">>]
    /\ CallsOf("updateAvatar") # {}
    /\ ArgOf("validate") = [id |-> <<"1">>, avatarUrl |-> <<"a">>]
    /\ ArgOf("updateAvatar") = [id |-> <<"1">>, avatarUrl |-> <<"a">>]
    /\ ret.response.statusCode = 201

\* C20: authenticate calls findByEmail, hashProvider.compare, jwtProvider.sign
\* in that order, each at most once per request: compare is never called when
\* findByEmail returned null, sign is never called when the user is missing or
\* compare returned false, and the payload signed is {userId, role} of the
\* user found by email.
C20_FindCompareSign ==
    (ret.op = "login" /\ ret.calls # <<>>) =>
    LET found == RepoFindByEmail(users, ret.request.body.email)
    IN  /\ Cardinality(CallsOf("findByEmail")) = 1
        /\ Cardinality(CallsOf("compare")) <= 1
        /\ Cardinality(CallsOf("sign")) <= 1
        /\ ArgOf("findByEmail") = ret.request.body.email
        /\ \A f \in CallsOf("findByEmail") : \A c \in CallsOf("compare") : f < c
        /\ \A c \in CallsOf("compare") : \A g \in CallsOf("sign") : c < g
        /\ CallsOf("compare") # {} <=> (ret.fault.at # "findByEmail" /\ found # Null)
        /\ CallsOf("compare") # {} =>
              ArgOf("compare") = <<ret.request.body.password, found[1].password>>
        /\ CallsOf("sign") # {} <=>
              /\ CallsOf("compare") # {}
              /\ ret.fault.at # "compare"
              /\ HashCompare(ret.request.body.password, found[1].password)
        /\ CallsOf("sign") # {} =>
              ArgOf("sign") = [userId |-> found[1].id, role |-> found[1].role]

\* a registered user logged in with a wrong password: the hash was compared
\* once and nothing was signed
C20_Witness ==
    /\ ret.op = "login"
    /\ ret.calls # <<>>
    /\ ret.fault = NoFault
    /\ RepoFindByEmail(users, ret.request.body.email) # Null
    /\ Cardinality(CallsOf("compare")) = 1
    /\ CallsOf("sign") = {}
    /\ ret.response.statusCode = 401

\* C26: authentication (successful or failed), the lookups, the list, the auth
\* middleware and every avatar-update request that ends in an error response
\* leave the stored users and all their fields unchanged; the store changes
\* only in a step in which a create or an updateAvatar succeeds.
C26_OnlyCreateAndUpdateWrite ==
    [][ (users' # users \/ minusOne' # minusOne) =>
          \/ /\ ret'.op \in {"create", "updateAvatar"}
             /\ ret'.response.statusCode = 201
          \/ ret'.op \in {"repository.create", "repository.updateAvatar"}
          \/ \E r \in 1..MaxReq :
                /\ reqs'[r] # reqs[r]
                /\ reqs'[r].pc = "done" /\ reqs'[r].response = Created
      ]_vars

\* the repository rejected the write of an avatar update for the first user:
\* the request ended in an error response and the user kept the default avatar
C26_Witness ==
    /\ ret.op = "updateAvatar"
    /\ ret.fault.at = "updateAvatar"
    /\ CallsOf("updateAvatar") # {}
    /\ ArgOf("updateAvatar").id = <<"1">>
    /\ ret.response.statusCode >= 400
    /\ users[1].avatarUrl = USER_DEFAULT_AVATAR_URL

C28_StartAndTerminalLog ==
    (ret.op \in {"login", "updateAvatar"} /\ ret.calls # <<>>) =>
    /\ ret.calls[1].fn = "debug"
    /\ \A i \in DOMAIN ret.calls :
          ret.calls[i].fn \in {"sanitize", "validate", "idValidator", "findById",
                               "updateAvatar", "findByEmail", "compare", "sign"}
              => i > 1
    /\ CallsOf("info") \cup CallsOf("error") = {Len(ret.calls)}
    /\ ret.rejection = NoObject <=> ret.calls[Len(ret.calls)].fn = "info"
    /\ ret.rejection # NoObject <=> ret.calls[Len(ret.calls)].fn = "error"

\* an avatar update that resolved: the start log first, the info log last, no
\* error log
C28_Witness ==
    /\ ret.op = "updateAvatar"
    /\ ret.response.statusCode = 201
    /\ ret.calls[1] = Call("debug", <<"2">>)
    /\ ret.calls[Len(ret.calls)] = Call("info", <<"2">>)
    /\ CallsOf("error") = {}

----------------------------------------------------------------------------
\* The repository called directly, and the list-users endpoint

\* ids a caller may pass: those of the first two users and one no user has
KnownIds == { <<"1">>, <<"2">>, <<"4">> }

StoredUrls == { <<"a">>, <<"b">> }

\* emails a caller may look up: the stored ones and one that differs in case
LookupEmails == Emails \cup {"Ana@x"}

\* UserListController.handle over UserListService.list: ok(repository.list())
UserListHandle(arr) ==
    [calls |-> << Call("list", "") >>, threw |-> FALSE, rejection |-> NoObject,
     response |-> Ok(RepoList(arr))]

DirectCreate(data) ==
    /\ ret = NoRet
    /\ Len(users) < MaxUsers
    /\ users' = RepoCreate(users, data)
    /\ ret' = [op |-> "repository.create", arg |-> data, value |-> <<>>]
    /\ UNCHANGED <<env, db, minusOne, reqs, app, http>>

DirectUpdateAvatar(data) ==
    /\ ret = NoRet
    /\ users' = RepoUpdateAvatar(users, data)
    /\ minusOne' = RepoUpdateMinusOne(users, minusOne, data)
    /\ ret' = [op |-> "repository.updateAvatar", arg |-> data, value |-> <<>>]
    /\ UNCHANGED <<env, db, reqs, app, http>>

DirectFindByEmail(email) ==
    /\ ret = NoRet
    /\ ret' = [op |-> "repository.findByEmail", arg |-> email,
                value |-> RepoFindByEmail(users, email)]
    /\ UNCHANGED <<env, db, users, minusOne, reqs, app, http>>

DirectFindById(id) ==
    /\ ret = NoRet
    /\ ret' = [op |-> "repository.findById", arg |-> id,
                value |-> RepoFindById(users, id)]
    /\ UNCHANGED <<env, db, users, minusOne, reqs, app, http>>

DirectList ==
    /\ ret = NoRet
    /\ ret' = [op |-> "repository.list", value |-> RepoList(users)]
    /\ UNCHANGED <<env, db, users, minusOne, reqs, app, http>>

\* GET /api/users, past the pre-handler
ListUsers ==
    /\ ret = NoRet
    /\ LET h == UserListHandle(users)
       IN  ret' = [op |-> "listUsers", value |-> h.response.body.data,
                   response |-> h.response]
    /\ UNCHANGED <<env, db, users, minusOne, reqs, app, http>>

NextRepo ==
    \/ Respond
    \/ \E data \in CreateInputs : DirectCreate(data)
    \/ \E data \in [id: KnownIds, avatarUrl: StoredUrls] : DirectUpdateAvatar(data)
    \/ \E email \in LookupEmails : DirectFindByEmail(email)
    \/ \E id \in KnownIds : DirectFindById(id)
    \/ DirectList
    \/ ListUsers

SpecRepo == Init /\ [][NextRepo]_vars

\* C1: after any sequence of create and updateAvatar calls on the repository,
\* no object returned by findById or by list, and no user in the data of a
\* list-users response, has a password key.
C1_NoPasswordReturned ==
    ret.op \in {"repository.findById", "repository.list", "listUsers"} =>
        \A i \in DOMAIN ret.value : "password" \notin DOMAIN ret.value[i]

\* list returns a user whose avatar was updated, after an update that missed
C1_Witness ==
    /\ ret.op = "repository.list"
    /\ minusOne # <<>>
    /\ \E i \in DOMAIN ret.value :
          /\ ret.value[i].avatarUrl # USER_DEFAULT_AVATAR_URL
          /\ "password" \in DOMAIN users[i]

\* C12: a create(data) with an email not stored before makes findByEmail of that
\* email return a record with the name, email, phone, birthdate and password
\* passed to create and the default role and avatarUrl; findByEmail matches
\* exactly and case-sensitively, and returns null when no stored email is
\* identical to the one asked for.
C12_CreateThenFindByEmail ==
    [][ /\ (/\ ret'.op = "repository.create"
            /\ FindIndex(users, "email", ret'.arg.email) = 0)
           => LET found == RepoFindByEmail(users', ret'.arg.email)
              IN  /\ found # Null
                  /\ found[1].name = ret'.arg.name
                  /\ found[1].email = ret'.arg.email
                  /\ found[1].phone = ret'.arg.phone
                  /\ found[1].birthdate = ret'.arg.birthdate
                  /\ found[1].password = ret'.arg.password
                  /\ found[1].role = "cliente"
                  /\ found[1].avatarUrl = USER_DEFAULT_AVATAR_URL
        /\ ret'.op = "repository.findByEmail"
           => /\ ret'.value = Null <=> \A i \in DOMAIN users' : users'[i].email # ret'.arg
              /\ ret'.value # Null =>
                    /\ ret'.value[1].email = ret'.arg
                    /\ \E i \in DOMAIN users' : users'[i] = ret'.value[1]
      ]_vars

\* a lookup that differs from a stored email only in case returned null
C12_Witness ==
    /\ ret.op = "repository.findByEmail"
    /\ ret.arg = "Ana@x"
    /\ ret.value = Null
    /\ \E i \in DOMAIN users : users[i].email = "ana@x" /\ users[i].password = "pw1"

\* the stored users with the given id
WithId(id) == {i \in DOMAIN users : users[i].id = id}

\* C23: updateAvatar with an id that matches a stored user overwrites only
\* that user's avatarUrl with the given value: the user's other fields and
\* every other stored user are unchanged, and so are the number and the order
\* of the stored users.
C23_OnlyAvatarUrlWritten ==
    [][ (ret'.op = "repository.updateAvatar" /\ WithId(ret'.arg.id) # {}) =>
          /\ Len(users') = Len(users)
          /\ minusOne' = minusOne
          /\ \A i \in DOMAIN users :
                IF i \in WithId(ret'.arg.id)
                THEN /\ users'[i].avatarUrl = ret'.arg.avatarUrl
                     /\ Omit(users'[i], {"avatarUrl"}) = Omit(users[i], {"avatarUrl"})
                ELSE users'[i] = users[i]
      ]_vars

\* the second of two stored users got a new avatar and the first kept the default
C23_Witness ==
    /\ ret.op = "repository.updateAvatar"
    /\ ret.arg = [id |-> <<"2">>, avatarUrl |-> <<"b">>]
    /\ Len(users) = 2
    /\ users[2].avatarUrl = <<"b">> /\ users[2].email = "bob@x"
    /\ users[1].avatarUrl = USER_DEFAULT_AVATAR_URL

\* C24 as stated: updateAvatar called directly with an id that matches no
\* stored user writes at index -1 and thereby changes what a later list,
\* findById or findByEmail returns for the stored users.
C24_AsStated ==
    [][ (ret'.op = "repository.updateAvatar" /\ WithId(ret'.arg.id) = {}
            /\ users # <<>>) =>
          \/ RepoList(users') # RepoList(users)
          \/ \E id \in KnownIds : RepoFindById(users', id) # RepoFindById(users, id)
          \/ \E email \in LookupEmails :
                RepoFindByEmail(users', email) # RepoFindByEmail(users, email)
      ]_vars

\* C24: updateAvatar called directly with an id that matches no stored user is
\* not guarded: it resolves and writes {avatarUrl} to the property -1 of the
\* array. That property is no element: the stored users, their number and
\* what list, findById and findByEmail return are unchanged.
C24_MissWritesBesideTheUsers ==
    [][ (ret'.op = "repository.updateAvatar" /\ WithId(ret'.arg.id) = {}) =>
          /\ minusOne' = << [avatarUrl |-> ret'.arg.avatarUrl] >>
          /\ users' = users
          /\ RepoList(users') = RepoList(users)
          /\ \A id \in KnownIds : RepoFindById(users', id) = RepoFindById(users, id)
          /\ \A email \in LookupEmails :
                RepoFindByEmail(users', email) = RepoFindByEmail(users, email)
      ]_vars

\* an id no user has was updated while two users were stored: the property -1
\* holds the url, the two users their default avatars
C24_Witness ==
    /\ ret.op = "repository.updateAvatar"
    /\ ret.arg = [id |-> <<"4">>, avatarUrl |-> <<"a">>]
    /\ minusOne = << [avatarUrl |-> <<"a">>] >>
    /\ Len(users) = 2
    /\ \A i \in DOMAIN users : users[i].avatarUrl = USER_DEFAULT_AVATAR_URL

----------------------------------------------------------------------------
\* Creation requests that interleave at their awaits

\* the requests between the validator's lookup and repository.create
Hashing == {r \in 1..MaxReq : reqs[r].pc = "hashing"}

\* POST /api/users up to the await of the password hash: the uniqueness
\* validator has read the store; a duplicate is answered 409 at once
StartCreate(r, data) ==
    /\ ret = NoRet
    /\ reqs[r] = IdleReq
    /\ Len(users) + Cardinality(Hashing) < MaxUsers
    /\ LET v == UniqueEmailValidate(users, data.email)
       IN  reqs' = [reqs EXCEPT ![r] =
                      IF v.kind = "rejected"
                      THEN [kind |-> "create", pc |-> "done", body |-> data,
                            response |-> HandleError(v.error)]
                      ELSE [kind |-> "create", pc |-> "hashing", body |-> data]]
    /\ UNCHANGED <<env, db, users, minusOne, ret, app, http>>

\* the hash has resolved: repository.create pushes the user, 201 follows
PersistCreate(r) ==
    /\ ret = NoRet
    /\ reqs[r].pc = "hashing"
    /\ users' = RepoCreate(users, WithHashedPassword(reqs[r].body))
    /\ reqs' = [reqs EXCEPT ![r] =
                   [kind |-> "create", pc |-> "done", body |-> reqs[r].body,
                    response |-> Created]]
    /\ UNCHANGED <<env, db, minusOne, ret, app, http>>

\* the response of a creation request is sent
FinishCreate(r) ==
    /\ ret = NoRet
    /\ reqs[r].pc = "done"
    /\ reqs' = [reqs EXCEPT ![r] = IdleReq]
    /\ UNCHANGED <<env, db, users, minusOne, ret, app, http>>

\* avatar updates as concurrent clients send them: a padded id of the first
\* user, the second user's id, an id no user has
RaceAvatarInputs ==
    [id: { <<" ", "1", " ">>, <<"2">>, <<"4">> }, avatarUrl: { <<" ", "A", " ">>, <<"b">> }]

\* PATCH /api/users/avatar up to the await of validate: the data is sanitized
\* and the validator has read the store (findById); a refusal is answered at once
StartAvatar(r, data) ==
    /\ ret = NoRet
    /\ reqs[r] = IdleReq
    /\ LET sanitized == Sanitize(data)
           v == Validate(users, sanitized, NoFault, <<>>)
       IN  reqs' = [reqs EXCEPT ![r] =
                      IF v.kind = "rejected"
                      THEN [kind |-> "avatar", pc |-> "done", body |-> data,
                            response |-> HandleError(v.error)]
                      ELSE [kind |-> "avatar", pc |-> "validated", body |-> data,
                            sanitized |-> sanitized, seen |-> Len(users)]]
    /\ UNCHANGED <<env, db, users, minusOne, ret, app, http>>

\* validate has resolved: repository.updateAvatar finds the index and writes, 201 follows
WriteAvatar(r) ==
    /\ ret = NoRet
    /\ reqs[r].pc = "validated"
    /\ users' = RepoUpdateAvatar(users, reqs[r].sanitized)
    /\ minusOne' = RepoUpdateMinusOne(users, minusOne, reqs[r].sanitized)
    /\ reqs' = [reqs EXCEPT ![r] =
                   [kind |-> "avatar", pc |-> "done", body |-> reqs[r].body,
                    seen |-> reqs[r].seen, response |-> Created]]
    /\ UNCHANGED <<env, db, ret, app, http>>

NextRace ==
    \/ Respond
    \/ \E r \in 1..MaxReq, data \in RaceAvatarInputs : StartAvatar(r, data)
    \/ \E r \in 1..MaxReq : WriteAvatar(r)
    \/ \E r \in 1..MaxReq, data \in CreateInputs : StartCreate(r, data)
    \/ \E r \in 1..MaxReq : PersistCreate(r)
    \/ \E r \in 1..MaxReq : FinishCreate(r)
    \/ \E request \in LoginRequests : Login(request, NoFault)

SpecRace == Init /\ [][NextRace]_vars

\* the stored users with the given email
WithEmail(email) == {i \in DOMAIN users : users[i].email = email}

\* C3 as stated: for every stored user, a login with that user's email and a
\* password the hash provider accepts against that user's stored hash returns
\* 200 with an accessToken and the stored record without its password.
C3_AsStated ==
    (ret.op = "login" /\ HasBody(ret.request) /\ ret.fault = NoFault) =>
        \A i \in WithEmail(ret.request.body.email) :
            HashCompare(ret.request.body.password, users[i].password) =>
                /\ ret.response.statusCode = 200
                /\ "accessToken" \in DOMAIN ret.response.body.data
                /\ ret.response.body.data.user = Omit(users[i], {"password"})

\* C7 as stated: after any interleaving of creation requests no two stored
\* users have the same email, and a creation request whose email is already
\* stored is answered 409 and adds no user.
C7_AsStated ==
    /\ \A i, j \in DOMAIN users : users[i].email = users[j].email => i = j
    /\ \A r \in 1..MaxReq :
          (reqs[r].kind = "create" /\ reqs[r].pc = "done"
              /\ reqs[r].response.statusCode = 201)
              => Cardinality(WithEmail(reqs[r].body.email)) = 1

\* C21: under any interleaving of avatar updates with creations and logins,
\* the service calls repository.updateAvatar only with an id for which the
\* validator's findById returned a user, and that id still matches a stored
\* user at the moment of the write: the service path never writes at index -1.
C21_NoWriteAtMinusOne ==
    /\ minusOne = <<>>
    /\ \A r \in 1..MaxReq :
          reqs[r].pc = "validated" =>
              /\ reqs[r].seen <= Len(users)
              /\ \E i \in 1..reqs[r].seen : users[i].id = reqs[r].sanitized.id

\* an avatar update was written after a user had been created between its
\* validation and its write
C21_Witness ==
    \E r \in 1..MaxReq :
        /\ reqs[r].kind = "avatar" /\ reqs[r].pc = "done"
        /\ reqs[r].response = Created
        /\ reqs[r].seen < Len(users)
        /\ users[1].avatarUrl = <<"a">>

\* C25: driven through the services, a stored user's avatarUrl is the default
\* (set at creation) or the trimmed, lower-cased avatarUrl of an avatar-update
\* request that passed validation for that user's id; under concurrent updates
\* of one user the stored value is that of one of the requests, whole.
C25_AvatarUrlProvenance ==
    [][ \A i \in DOMAIN users' :
          /\ i \notin DOMAIN users => users'[i].avatarUrl = USER_DEFAULT_AVATAR_URL
          /\ (i \in DOMAIN users /\ users'[i].avatarUrl # users[i].avatarUrl) =>
                \E r \in 1..MaxReq :
                    /\ reqs[r].pc = "validated" /\ reqs'[r].pc = "done"
                    /\ reqs'[r].response = Created
                    /\ users'[i].id = Trim(reqs[r].body.id)
                    /\ users'[i].avatarUrl = ToLowerCase(Trim(reqs[r].body.avatarUrl))
          /\ users'[i].avatarUrl \in
                {USER_DEFAULT_AVATAR_URL} \cup
                {ToLowerCase(Trim(b.avatarUrl)) : b \in RaceAvatarInputs}
      ]_vars

\* two updates of the first user with different urls were both answered 201;
\* the user holds the url of one of them
C25_Witness ==
    /\ \A r \in 1..MaxReq :
          /\ reqs[r].kind = "avatar" /\ reqs[r].pc = "done"
          /\ reqs[r].response = Created
          /\ reqs[r].body.id = <<" ", "1", " ">>
    /\ reqs[1].body.avatarUrl = <<" ", "A", " ">>
    /\ reqs[2].body.avatarUrl = <<"b">>
    /\ users[1].avatarUrl = <<"a">>

----------------------------------------------------------------------------
\* JsonWebTokenProvider.verify
\* A header or token is a sequence of atoms: " " is the space, every other
\* atom stands for a run of characters without a space.

\* the tokens a client may present
Tokens == {"tok.login", "tok.mw", "tok.expired", "tok.junk"}

\* what each token is: the one login issued, one signed with the middleware's
\* key, one past its expiry, one that is no JWT at all
Issued(tok, e) ==
    CASE tok = "tok.login" ->
           [jwt |-> TRUE, expired |-> FALSE,
            signed |-> JwtSign([userId |-> <<"1">>, role |-> USER_DEFAULT_ROLE],
                               LoginSecret(e))]
      [] tok = "tok.mw" ->
           [jwt |-> TRUE, expired |-> FALSE,
            signed |-> JwtSign([userId |-> <<"2">>, role |-> "administrador"],
                               MiddlewareSecret(e))]
      [] tok = "tok.expired" ->
           [jwt |-> TRUE, expired |-> TRUE,
            signed |-> JwtSign([userId |-> <<"2">>, role |-> USER_DEFAULT_ROLE],
                               MiddlewareSecret(e))]
      [] OTHER ->
           [jwt |-> FALSE, expired |-> FALSE,
            signed |-> JwtSign([userId |-> Undefined, role |-> UndefinedStr], "")]

\* what a string that is none of the tokens above is: no JWT
TokenIssued(token, e) ==
    IF Len(token) = 1 /\ token[1] \in Tokens
    THEN Issued(token[1], e)
    ELSE Issued("tok.junk", e)

\* jwt.verify(token, secretKey) returns the payload, as opposed to throwing a
\* JsonWebTokenError: a JWT, signed with this key, not expired
JwtLibAccepts(issued, secretKey) ==
    /\ issued.jwt
    /\ ~issued.expired
    /\ issued.signed.key = secretKey

JwtLibVerifies(token, secretKey, e) == JwtLibAccepts(TokenIssued(token, e), secretKey)

\* what jwt.verify returns: the signed payload and the claims jwt.sign added,
\* in seconds from the signature
Decoded(signed) ==
    [k \in DOMAIN signed.payload \cup {"iat", "exp"} |->
        IF k = "iat" THEN 0
        ELSE IF k = "exp" THEN signed.expiresIn
        ELSE signed.payload[k]]

\* verify that accepts a token whatever key signed it
JwtVerifyAnyKey(token, issued, secretKey, libFault) ==
    IF ~Truthy(token)
    THEN Rejected(<<>>, InvalidParamError("token", "não fornecido"))
    ELSE IF libFault
    THEN Rejected(<<>>, ServerError(PlainError("Erro inesperado")))
    ELSE IF ~(issued.jwt /\ ~issued.expired)
    THEN Rejected(<<>>, InvalidParamError("token", "inválido ou expirado"))
    ELSE Resolved(<<>>, Decoded(issued.signed))

\* verify of a token string that is the JWT issued; libFault: jwt.verify throws
\* an error that is no JsonWebTokenError
JwtVerifyIssued(token, issued, secretKey, libFault) ==
    IF ~Truthy(token)
    THEN Rejected(<<>>, InvalidParamError("token", "não fornecido"))
    ELSE IF libFault
    THEN Rejected(<<>>, ServerError(PlainError("Erro inesperado")))
    ELSE IF ~JwtLibAccepts(issued, secretKey)
    THEN Rejected(<<>>, InvalidParamError("token", "inválido ou expirado"))
    ELSE Resolved(<<>>, Decoded(issued.signed))

\* verify of a token a client presents
JwtVerify(token, secretKey, e, libFault) ==
    JwtVerifyIssued(token, TokenIssued(token, e), secretKey, libFault)

----------------------------------------------------------------------------
\* AuthMiddleware and fastifyMiddlewareAdapter

\* the index of the first space of s from i on, 0 when there is none
RECURSIVE IndexOfSpace(_, _)
IndexOfSpace(s, i) ==
    IF i > Len(s) THEN 0
    ELSE IF IsSpace(s[i]) THEN i
    ELSE IndexOfSpace(s, i + 1)

\* String.prototype.split(" ")
RECURSIVE Split(_)
Split(s) ==
    LET i == IndexOfSpace(s, 1)
    IN  IF i = 0 THEN << s >>
        ELSE << SubSeq(s, 1, i - 1) >> \o Split(SubSeq(s, i + 1, Len(s)))

\* parts[n] of a destructured array, undefined past its end
Part(parts, n) == IF n <= Len(parts) THEN parts[n] ELSE Undefined

\* the string "Bearer"
Bearer == << "Bearer" >>

\* handle that takes any scheme, checking only that a token follows
AuthMiddlewareHandleAnyScheme(request, secretKey, e, libFault) ==
    LET authHeader == Get(request.headers, "authorization")
        parts == Split(authHeader)
        token == Part(parts, 2)
        v == JwtVerify(token, secretKey, e, libFault)
    IN  IF ~Truthy(authHeader)
        THEN HandleError(MissingParamError("token de autenticação"))
        ELSE IF ~Truthy(token)
        THEN HandleError(InvalidParamError("token", "formato inválido"))
        ELSE IF v.kind = "rejected" THEN HandleError(v.error)
        ELSE Ok([userId |-> v.value.userId, userRole |-> v.value.role])

\* AuthMiddleware.handle
AuthMiddlewareHandle(request, secretKey, e, libFault) ==
    LET authHeader == Get(request.headers, "authorization")
        parts == Split(authHeader)
        bearer == Part(parts, 1)
        token == Part(parts, 2)
        v == JwtVerify(token, secretKey, e, libFault)
    IN  IF ~Truthy(authHeader)
        THEN HandleError(MissingParamError("token de autenticação"))
        ELSE IF bearer # Bearer \/ ~Truthy(token)
        THEN HandleError(InvalidParamError("token", "formato inválido"))
        ELSE IF v.kind = "rejected" THEN HandleError(v.error)
        ELSE Ok([userId |-> v.value.userId, userRole |-> v.value.role])

\* the provider calls of a handle that verifies whatever follows the first part
VerifyCallsAnyScheme(request) ==
    LET authHeader == Get(request.headers, "authorization")
        token == Part(Split(authHeader), 2)
    IN  IF ~Truthy(authHeader) \/ ~Truthy(token) THEN <<>>
        ELSE << Call("verify", token) >>

\* AuthMiddleware.handle, the calls it makes on the JWT provider: one
\* verify(token) once the header has passed both checks, in no loop
VerifyCalls(request) ==
    LET authHeader == Get(request.headers, "authorization")
        parts == Split(authHeader)
        bearer == Part(parts, 1)
        token == Part(parts, 2)
    IN  IF ~Truthy(authHeader) THEN <<>>
        ELSE IF bearer # Bearer \/ ~Truthy(token) THEN <<>>
        ELSE << Call("verify", token) >>

\* Object.assign(target, source)
ObjectAssign(target, source) ==
    [k \in (DOMAIN target) \cup (DOMAIN source) |->
        IF k \in DOMAIN source THEN source[k] ELSE target[k]]

\* no reply has been sent
NoReply == [sent |-> FALSE]

\* reply.code(statusCode).send(body)
Reply(statusCode, body) == [sent |-> TRUE, code |-> statusCode, payload |-> body]

\* the adapter that passes every request on, whatever the middleware answered
FastifyMiddlewareAdapterPassAll(request, secretKey, e, libFault) ==
    LET httpResponse ==
            AuthMiddlewareHandle([headers |-> request.headers, body |-> request.body],
                                 secretKey, e, libFault)
    IN  [mw |-> httpResponse, reply |-> NoReply,
         request |-> IF httpResponse.statusCode = 200
                     THEN ObjectAssign(request, httpResponse.body.data)
                     ELSE request]

\* fastifyMiddlewareAdapter(middleware)(request, reply)
FastifyMiddlewareAdapter(request, secretKey, e, libFault) ==
    LET httpResponse ==
            AuthMiddlewareHandle([headers |-> request.headers, body |-> request.body],
                                 secretKey, e, libFault)
    IN  IF httpResponse.statusCode = 200
        THEN [mw |-> httpResponse, reply |-> NoReply,
              request |-> ObjectAssign(request, httpResponse.body.data)]
        ELSE [mw |-> httpResponse, request |-> request,
              reply |-> Reply(httpResponse.statusCode, httpResponse.body)]

----------------------------------------------------------------------------
\* The route table and the dispatch of a request through it

Route(method, url, preHandler, controller) ==
    [method |-> method, url |-> url, preHandler |-> preHandler,
     controller |-> controller]

\* setupUserRoutes(app)
SetupUserRoutes ==
    { Route("POST", "/api/users", FALSE, "UserCreateController"),
      Route("GET", "/api/users", TRUE, "UserListController"),
      Route("PATCH", "/api/users/avatar", TRUE, "UserUpdateAvatarController") }

\* setupAuthRoutes(app)
SetupAuthRoutes ==
    { Route("POST", "/api/auth/login", FALSE, "AuthenticateController") }

\* setupRoutes(app): the user routes and the health check
SetupRoutesTable ==
    SetupUserRoutes \cup { Route("GET", "/health", FALSE, "health") }

\* the routes registered for a method and url
Matching(routes, method, url) ==
    {rt \in routes : rt.method = method /\ rt.url = url}

Methods == {"GET", "POST", "PATCH"}

Urls == {"/api/users", "/api/users/avatar", "/api/auth/login", "/health"}

\* authorization headers as a client may send them
AuthorizationValues ==
    { <<>>, Bearer, <<"Bearer", " ">>, <<"tok.mw">>,
      <<"Basic", " ", "tok.mw">>, <<"bearer", " ", "tok.mw">>,
      <<"Bearer", " ", " ", "tok.mw">>, <<"Bearer", " ", "tok.mw", " ", "x">> }
    \cup { <<"Bearer", " ", tok>> : tok \in Tokens }

HeaderSets ==
    {EmptyObject} \cup {[authorization |-> v] : v \in AuthorizationValues}

\* setupServer: the routes are registered once
SetupRoutes ==
    /\ ~app.configured
    /\ app' = [configured |-> TRUE, routes |-> SetupRoutesTable]
    /\ UNCHANGED <<env, db, users, minusOne, ret, reqs, http>>

\* a request arrives: no route answers 404, else the route's chain starts
Receive(method, url, headers) ==
    /\ app.configured
    /\ http = NoHttp
    /\ LET request == [method |-> method, url |-> url, headers |-> headers,
                       body |-> NoBody]
           found == Matching(app.routes, method, url)
       IN  IF found = {}
           THEN http' = [phase |-> "replied", request |-> request,
                         route |-> NoObject, mw |-> NoObject, libFault |-> FALSE,
                         reply |-> Reply(404, NoObject), invoked |-> "none",
                         calls |-> <<>>]
           ELSE \E rt \in found :
                  http' = [phase |-> IF rt.preHandler THEN "preHandler" ELSE "handler",
                           request |-> request, route |-> rt, mw |-> NoObject,
                           libFault |-> FALSE, reply |-> NoReply, invoked |-> "none",
                           calls |-> <<>>]
    /\ UNCHANGED <<env, db, users, minusOne, ret, reqs, app>>

\* the route's pre-handler: the adapter around the auth middleware
PreHandler(libFault) ==
    /\ http.phase = "preHandler"
    /\ LET a == FastifyMiddlewareAdapter(http.request, MiddlewareSecret(env), env,
                                         libFault)
       IN  http' = [http EXCEPT !.phase = "preHandlerDone", !.mw = a.mw,
                                !.libFault = libFault, !.reply = a.reply,
                                !.request = a.request,
                                !.calls = VerifyCalls(http.request)]
    /\ UNCHANGED <<env, db, users, minusOne, ret, reqs, app>>

\* Fastify after the pre-handlers: the handler runs unless a reply was sent
InvokeController ==
    /\ http.phase \in {"preHandlerDone", "handler"}
    /\ ~http.reply.sent
    /\ http' = [http EXCEPT !.phase = "handled", !.invoked = http.route.controller]
    /\ UNCHANGED <<env, db, users, minusOne, ret, reqs, app>>

\* the exchange is over
Close ==
    /\ \/ http.phase \in {"replied", "handled"}
       \/ http.phase = "preHandlerDone" /\ http.reply.sent
    /\ http' = NoHttp
    /\ UNCHANGED <<env, db, users, minusOne, ret, reqs, app>>

NextHttp ==
    \/ SetupRoutes
    \/ \E method \in Methods, url \in Urls, headers \in HeaderSets :
          Receive(method, url, headers)
    \/ \E libFault \in BOOLEAN : PreHandler(libFault)
    \/ InvokeController
    \/ Close

SpecHttp == Init /\ [][NextHttp]_vars

\* the pre-handler of a request to one of the two protected routes has run
PreHandled ==
    /\ http.phase \in {"preHandlerDone", "handled"}
    /\ http.route # NoObject
    /\ \/ http.route.method = "GET" /\ http.route.url = "/api/users"
       \/ http.route.method = "PATCH" /\ http.route.url = "/api/users/avatar"

\* a request to a protected route never reaches the controller unhandled
\* by the pre-handler
ProtectedRoutesGuarded ==
    (/\ http.phase # "none"
     /\ http.route # NoObject
     /\ <<http.route.method, http.route.url>> \in
            {<<"GET", "/api/users">>, <<"PATCH", "/api/users/avatar">>}
     /\ http.invoked # "none")
    => (http.mw # NoObject /\ http.mw.statusCode = 200)

\* C4: on GET /api/users and PATCH /api/users/avatar the controller is never
\* invoked when the middleware's result is not 200: the adapter then replies
\* with exactly the middleware's status and body; only on 200 is the decoded
\* identity merged into the request, which goes on with no reply sent.
C4_ControllerBehindMiddleware ==
    /\ ProtectedRoutesGuarded
    /\ PreHandled =>
          IF http.mw.statusCode = 200
          THEN /\ ~http.reply.sent
               /\ http.request.userId = http.mw.body.data.userId
               /\ http.request.userRole = http.mw.body.data.userRole
          ELSE /\ http.reply = Reply(http.mw.statusCode, http.mw.body)
               /\ http.invoked = "none"
               /\ "userId" \notin DOMAIN http.request
               /\ "userRole" \notin DOMAIN http.request

\* the avatar controller was invoked after the middleware answered 200
C4_Witness ==
    /\ PreHandled
    /\ http.route.url = "/api/users/avatar"
    /\ http.mw.statusCode = 200
    /\ http.invoked = "UserUpdateAvatarController"

\* the method, url and pre-handler flag of the registered routes
Registered == {<<rt.method, rt.url, rt.preHandler>> : rt \in app.routes}

\* C5 as stated: once setupRoutes has run, POST /api/users and POST
\* /api/auth/login are registered without the auth pre-handler, GET /api/users
\* and PATCH /api/users/avatar with it, and GET /health is registered.
C5_AsStated ==
    app.configured =>
        { <<"POST", "/api/users", FALSE>>, <<"POST", "/api/auth/login", FALSE>>,
          <<"GET", "/api/users", TRUE>>, <<"PATCH", "/api/users/avatar", TRUE>>,
          <<"GET", "/health", FALSE>> } \subseteq Registered

\* the middleware has answered the request in flight
MiddlewareRan == http.phase # "none" /\ http.mw # NoObject

\* the authorization header of the request in flight, and its parts
AuthHeader == Get(http.request.headers, "authorization")

HeaderAbsent == "authorization" \notin DOMAIN http.request.headers

\* the first part is "Bearer" and a non-empty token part follows
WellFormedHeader ==
    Part(Split(AuthHeader), 1) = Bearer /\ Truthy(Part(Split(AuthHeader), 2))

\* what the JWT provider does with the token part
Verdict ==
    JwtVerify(Part(Split(AuthHeader), 2), MiddlewareSecret(env), env, http.libFault)

ErrorResponse(statusCode, message) ==
    [statusCode |-> statusCode,
     body |-> [success |-> FALSE, errorMessage |-> message]]

\* the 200 of a verified token: the payload's userId and role
Authenticated ==
    http.mw = [statusCode |-> 200,
               body |-> [success |-> TRUE,
                         data |-> [userId |-> Verdict.value.userId,
                                   userRole |-> Verdict.value.role]]]

\* C6 as stated: four outcomes. Header absent: 400 missing "token de
\* autenticação"; first part not "Bearer" or token part empty: 400 "Parâmetro
\* inválido: Token. Formato inválido."; well-formed and rejected by the
\* provider: 400 with the provider's message; verified: 200 {userId, userRole}.
C6_AsStated ==
    MiddlewareRan =>
        /\ HeaderAbsent =>
              http.mw = ErrorResponse(400,
                  "Parâmetro obrigatório não informado: token de autenticação")
        /\ (~HeaderAbsent /\ ~WellFormedHeader) =>
              http.mw = ErrorResponse(400,
                  "Parâmetro inválido: Token. Formato inválido.")
        /\ (~HeaderAbsent /\ WellFormedHeader /\ Verdict.kind = "rejected") =>
              http.mw = ErrorResponse(400, Verdict.error.message)
        /\ (~HeaderAbsent /\ WellFormedHeader /\ Verdict.kind = "resolved") =>
              Authenticated

\* C6: five outcomes. Header absent or empty: 400 missing "token de
\* autenticação"; non-empty header whose first part is not "Bearer" or whose
\* token part is empty: 400 "Parâmetro inválido: Token. Formato inválido.";
\* well-formed and rejected by the provider as invalid or expired: 400
\* "Parâmetro inválido: Token. Inválido ou expirado."; well-formed and the
\* provider fails otherwise: 500 with the server error's message; verified:
\* 200 with {userId: payload.userId, userRole: payload.role}.
C6_FiveOutcomes ==
    MiddlewareRan =>
        /\ ~Truthy(AuthHeader) =>
              http.mw = ErrorResponse(400,
                  "Parâmetro obrigatório não informado: token de autenticação")
        /\ (Truthy(AuthHeader) /\ ~WellFormedHeader) =>
              http.mw = ErrorResponse(400,
                  "Parâmetro inválido: Token. Formato inválido.")
        /\ (Truthy(AuthHeader) /\ WellFormedHeader /\ Verdict.kind = "rejected") =>
              IF Verdict.error.statusCode = 400
              THEN http.mw = ErrorResponse(400,
                       "Parâmetro inválido: Token. Inválido ou expirado.")
              ELSE http.mw = ErrorResponse(500, Verdict.error.message)
        /\ (Truthy(AuthHeader) /\ WellFormedHeader /\ Verdict.kind = "resolved") =>
              Authenticated

\* the token that login issued was verified and its identity returned
C6_Witness ==
    /\ MiddlewareRan
    /\ AuthHeader = <<"Bearer", " ", "tok.login">>
    /\ http.mw.statusCode = 200
    /\ http.mw.body.data = [userId |-> <<"1">>, userRole |-> USER_DEFAULT_ROLE]

\* C18 as stated: the access token a successful login returned (here to the
\* first registered user, a cliente), presented before it expires, is accepted
\* by the auth middleware and authenticates the request as that user, in every
\* configuration of the environment, JWT_SECRET unset included.
C18_AsStated ==
    (/\ MiddlewareRan
     /\ AuthHeader = <<"Bearer", " ", "tok.login">>
     /\ ~http.libFault)
    => http.mw = [statusCode |-> 200,
                  body |-> [success |-> TRUE,
                            data |-> [userId |-> <<"1">>,
                                      userRole |-> USER_DEFAULT_ROLE]]]

\* C22: the auth middleware makes a single verification attempt per request:
\* jwtProvider.verify is called at most once, only when the authorization
\* header is present, its first space-separated part is exactly "Bearer" and
\* its second part is non-empty, with that second part as the token, and a
\* rejected verification is not retried.
C22_SingleVerify ==
    MiddlewareRan =>
        /\ Len(http.calls) <= 1
        /\ http.calls # <<>> <=> (~HeaderAbsent /\ WellFormedHeader)
        /\ http.calls # <<>> =>
              http.calls[1] = Call("verify", Part(Split(AuthHeader), 2))

\* an expired token was verified once, refused, and not tried again
C22_Witness ==
    /\ MiddlewareRan
    /\ AuthHeader = <<"Bearer", " ", "tok.expired">>
    /\ http.calls = << Call("verify", <<"tok.expired">>) >>
    /\ http.mw.statusCode = 400

----------------------------------------------------------------------------
\* The users collection as schema.prisma constrains it, next to the in-memory
\* repository: every call goes to both stores

\* the error of the database client for a second document with the same email
UniqueConstraintError == PlainError("Unique constraint failed on the fields: (email)")

\* the error of the database client for an update that matches no document
RecordNotFoundError == PlainError("Record to update not found.")

\* create on the collection: email @unique, then the defaults of the schema
SchemaCreate(coll, data) ==
    IF FindIndex(coll, "email", data.email) # 0
    THEN [store |-> coll, result |-> Rejected(<<>>, UniqueConstraintError)]
    ELSE [store |-> Append(coll,
                           [name      |-> data.name,
                            email     |-> data.email,
                            phone     |-> data.phone,
                            birthdate |-> data.birthdate,
                            password  |-> data.password,
                            id        |-> NewId(coll),
                            avatarUrl |-> USER_DEFAULT_AVATAR_URL,
                            role      |-> USER_DEFAULT_ROLE,
                            createdAt |-> Len(coll) + 1,
                            updatedAt |-> Len(coll) + 1]),
          result |-> Resolved(<<>>, <<>>)]

\* update of avatarUrl by id: updatedAt @updatedAt moves to the instant of the
\* write (later: the clock has advanced since the last write); what an update
\* that matches no document does is left open (rejects: it raises an error)
SchemaUpdateAvatar(coll, data, later, rejects) ==
    LET i == FindIndex(coll, "id", data.id)
    IN  IF i = 0
        THEN [store |-> coll,
              result |-> IF rejects THEN Rejected(<<>>, RecordNotFoundError)
                         ELSE Resolved(<<>>, <<>>)]
        ELSE [store |-> [coll EXCEPT ![i] =
                          [coll[i] EXCEPT !.avatarUrl = data.avatarUrl,
                                          !.updatedAt = IF later THEN @ + 1 ELSE @]],
              result |-> Resolved(<<>>, <<>>)]

\* what a caller observes of a call: whether it raised, and what it returned
Observed(result) ==
    [kind |-> result.kind,
     value |-> IF result.kind = "resolved" THEN result.value ELSE <<>>]

Both(op, arg, memValue, dbResult) ==
    [op |-> op, arg |-> arg, mem |-> Observed(Resolved(<<>>, memValue)),
     db |-> Observed(dbResult)]

BothCreate(data) ==
    /\ ret = NoRet
    /\ Len(users) < MaxUsers
    /\ LET d == SchemaCreate(db, data)
       IN  /\ users' = RepoCreate(users, data)
           /\ db' = d.store
           /\ ret' = Both("create", data, <<>>, d.result)
    /\ UNCHANGED <<env, minusOne, reqs, app, http>>

BothUpdateAvatar(data, later, rejects) ==
    /\ ret = NoRet
    /\ later => \A i \in DOMAIN db : db[i].updatedAt < MaxTick
    /\ LET d == SchemaUpdateAvatar(db, data, later, rejects)
       IN  /\ users' = RepoUpdateAvatar(users, data)
           /\ minusOne' = RepoUpdateMinusOne(users, minusOne, data)
           /\ db' = d.store
           /\ ret' = Both("updateAvatar", data, <<>>, d.result)
    /\ UNCHANGED <<env, reqs, app, http>>

BothFindByEmail(email) ==
    /\ ret = NoRet
    /\ ret' = Both("findByEmail", email, RepoFindByEmail(users, email),
                   Resolved(<<>>, RepoFindByEmail(db, email)))
    /\ UNCHANGED <<env, db, users, minusOne, reqs, app, http>>

BothFindById(id) ==
    /\ ret = NoRet
    /\ ret' = Both("findById", id, RepoFindById(users, id),
                   Resolved(<<>>, RepoFindById(db, id)))
    /\ UNCHANGED <<env, db, users, minusOne, reqs, app, http>>

BothList ==
    /\ ret = NoRet
    /\ ret' = Both("list", "", RepoList(users), Resolved(<<>>, RepoList(db)))
    /\ UNCHANGED <<env, db, users, minusOne, reqs, app, http>>

NextRefine ==
    \/ Respond
    \/ \E data \in CreateInputs : BothCreate(data)
    \/ \E data \in [id: KnownIds, avatarUrl: StoredUrls], later, rejects \in BOOLEAN :
          BothUpdateAvatar(data, later, rejects)
    \/ \E email \in Emails : BothFindByEmail(email)
    \/ \E id \in KnownIds : BothFindById(id)
    \/ BothList

SpecRefine == Init /\ [][NextRefine]_vars

\* C11 as stated: for every sequence of create, findByEmail, findById, list and
\* updateAvatar calls, the in-memory repository and the schema-constrained
\* collection return the same results and raise errors in the same calls.
C11_AsStated ==
    ret.op \in {"create", "findByEmail", "findById", "list", "updateAvatar"}
        => ret.mem = ret.db

----------------------------------------------------------------------------
\* UserAvatarDataSanitizer.sanitize applied to whatever a caller may pass

\* the values a field of the avatar data may hold
FieldValues == RawIds \cup RawUrls \cup {Undefined, <<" ", " ", "B", "d">>}

\* null, undefined, primitives, and objects with and without the two fields
SanitizerInputs ==
    {NoObject, Primitive("null", <<>>), Primitive("undefined", <<>>),
     Primitive("string", <<>>), Primitive("string", <<"a", "b">>),
     Primitive("number", <<"0">>), Primitive("number", <<"5">>),
     Primitive("boolean", <<"false">>), Primitive("boolean", <<"true">>)} \cup
    [id: FieldValues, avatarUrl: FieldValues] \cup
    {EmptyObject, [id |-> <<" ", "1">>], [avatarUrl |-> <<"B", " ">>],
     [id |-> <<"2">>, avatarUrl |-> <<"b">>, name |-> <<" ", "N">>]}

\* sanitize(userAvatarData)
ApplySanitize(data) ==
    /\ ret = NoRet
    /\ ret' = [op |-> "sanitize", arg |-> data, value |-> Sanitize(data)]
    /\ UNCHANGED <<env, db, users, minusOne, reqs, app, http>>

\* sanitize applied to what sanitize returned
SanitizeAgain ==
    /\ ret.op = "sanitize"
    /\ ret' = [op |-> "sanitize.again", first |-> ret.arg, arg |-> ret.value,
               value |-> Sanitize(ret.value)]
    /\ UNCHANGED <<env, db, users, minusOne, reqs, app, http>>

NextSanitize ==
    \/ Respond
    \/ \E data \in SanitizerInputs : ApplySanitize(data)
    \/ SanitizeAgain

SpecSanitize == Init /\ [][NextSanitize]_vars

\* C13 as stated: for every input that is null, undefined or a primitive,
\* sanitize returns the empty object {}.
C13_AsStated ==
    (/\ ret.op = "sanitize"
     /\ (ret.arg = NoObject \/ "prim" \in DOMAIN ret.arg))
    => ret.value = EmptyObject

\* C14 as stated: for every input x, sanitize(sanitize(x)) equals sanitize(x).
C14_AsStated == ret.op = "sanitize.again" => ret.value = ret.arg

\* C14: for every input x that is not falsy (an avatar-data object, or a truthy
\* primitive), sanitize(sanitize(x)) equals sanitize(x).
C14_IdempotentOnTruthy ==
    (ret.op = "sanitize.again" /\ TruthyInput(ret.first)) => ret.value = ret.arg

\* a padded, mixed-case object was sanitized twice with the same result
C14_Witness ==
    /\ ret.op = "sanitize.again"
    /\ ret.first = [id |-> <<" ", "1", " ">>, avatarUrl |-> <<" ", " ", "B", "d">>]
    /\ ret.arg = [id |-> <<"1">>, avatarUrl |-> <<"b", "d">>]
    /\ ret.value = ret.arg

----------------------------------------------------------------------------
\* The entry points: index.ts (main) and server.ts (startServer)

\* main: the port used when PORT is not set
MainDefaultPort == 3000

\* startServer: the default value of its port parameter
StartServerDefaultPort == 3333

\* the number NaN; a number n is written [n |-> n]
NaN == [nan |-> TRUE]

\* the value of the longest prefix of decimal digits
RECURSIVE DigitsValue(_, _)
DigitsValue(s, acc) ==
    IF s = <<>> \/ Head(s) \notin Digits THEN acc
    ELSE DigitsValue(Tail(s), 10 * acc + (CHOOSE d \in 0..9 : ToString(d) = Head(s)))

\* parseInt(s, 10): leading blanks skipped, an optional sign, then the digits
\* up to the first other character; NaN when there is no digit
ParseInt(s) ==
    LET t == TrimStart(s)
        signed == t # <<>> /\ Head(t) \in {"-", "+"}
        u == IF signed THEN Tail(t) ELSE t
    IN  IF u = <<>> \/ Head(u) \notin Digits THEN NaN
        ELSE [n |-> IF Head(t) = "-" THEN 0 - DigitsValue(u, 0) ELSE DigitsValue(u, 0)]

\* process.env.PORT: unset, empty, integers, and strings that are no integer
PortValues ==
    { Undefined, <<>>, <<"0">>, <<"8", "0">>, <<"3", "0", "0", "0">>,
      <<"3", "3", "3", "3">>, <<"4", "4", "4", "4">>, <<"7", "0", "0", "0", "0">>,
      <<"p", "o", "r", "t", "a">>, <<"5", "5", "5", "5", ".", "6", "7">>,
      <<" ", "4", "2">>, <<"-", "1">>, <<"8", "0", "a">> }

\* startServer(port = 3333), up to its first await: the process has a fresh app
StartServer(entry, PORT, arg) ==
    /\ ret = NoRet
    /\ ret' = [op |-> entry, PORT |-> PORT, calls |-> <<Call("startServer", arg)>>,
               port |-> IF arg = NoObject THEN [n |-> StartServerDefaultPort] ELSE arg,
               pc |-> "setupServer", console |-> <<>>, exitCode |-> NoObject]
    /\ app' = NoApp
    /\ UNCHANGED <<env, db, users, minusOne, reqs, http>>

\* index.ts run directly: main() reads PORT and awaits startServer(PORT)
Main(PORT) ==
    StartServer("main", PORT,
                IF Truthy(PORT) THEN ParseInt(PORT) ELSE [n |-> MainDefaultPort])

\* server.ts run directly: startServer() without a port
ServerModule == StartServer("server", Undefined, NoObject)

\* await setupServer(): the plugins and routes are registered, or a
\* registration rejects and startServer logs it and exits with code 1
SetupServer(fails) ==
    /\ ret # NoRet /\ ret.op \in {"main", "server"} /\ ret.pc = "setupServer"
    /\ IF fails
       THEN /\ ret' = [ret EXCEPT !.pc = "exited", !.exitCode = [code |-> 1],
                                  !.console = Append(@, Call("error", "setupServer"))]
            /\ app' = app
       ELSE /\ ret' = [ret EXCEPT !.pc = "listen"]
            /\ app' = [configured |-> TRUE, routes |-> SetupRoutesTable]
    /\ UNCHANGED <<env, db, users, minusOne, reqs, http>>

\* await server.listen({port, host}): the server listens on the port, or the
\* call fails (a port that is no number in 0..65535 always does) and
\* startServer logs the error and exits with code 1
Listen(fails) ==
    /\ ret # NoRet /\ ret.op \in {"main", "server"} /\ ret.pc = "listen"
    /\ IF fails \/ ret.port = NaN \/ ret.port.n \notin 0..65535
       THEN /\ ret' = [ret EXCEPT !.pc = "exited", !.exitCode = [code |-> 1],
                                  !.console = Append(@, Call("error", "listen"))]
            /\ app' = app
       ELSE /\ ret' = [ret EXCEPT !.pc = "listening",
                                  !.console = Append(@, Call("log", ret.port))]
            /\ app' = [configured |-> TRUE, routes |-> app.routes, port |-> ret.port]
    /\ UNCHANGED <<env, db, users, minusOne, reqs, http>>

NextMain ==
    \/ \E PORT \in PortValues : Main(PORT)
    \/ ServerModule
    \/ \E fails \in BOOLEAN : SetupServer(fails)
    \/ \E fails \in BOOLEAN : Listen(fails)

SpecMain == Init /\ [][NextMain]_vars

\* C17 as stated: when PORT is not set, main starts the server exactly once on
\* port 3333; when PORT is an integer string, it starts the server on that port.
C17_AsStated ==
    ret.op = "main" =>
    /\ Len(ret.calls) = 1 /\ ret.calls[1].fn = "startServer"
    /\ ret.PORT = Undefined =>
          /\ ret.calls[1].arg = [n |-> 3333]
          /\ ret.pc = "listening" => app.port = [n |-> 3333]
    /\ (ret.PORT # Undefined /\ ret.PORT # <<>>
          /\ \A i \in DOMAIN ret.PORT : ret.PORT[i] \in Digits) =>
          /\ ret.calls[1].arg = [n |-> DigitsValue(ret.PORT, 0)]
          /\ ret.pc = "listening" => app.port = [n |-> DigitsValue(ret.PORT, 0)]

\* t is s without its leading and trailing spaces
IsTrimOf(t, s) ==
    \E i \in 0..Len(s), j \in 0..Len(s) :
        /\ i + j + Len(t) = Len(s)
        /\ \A k \in 1..i : IsSpace(s[k])
        /\ \A k \in (Len(s) - j + 1)..Len(s) : IsSpace(s[k])
        /\ t = SubSeq(s, i + 1, Len(s) - j)
        /\ t # <<>> => (~IsSpace(t[1]) /\ ~IsSpace(t[Len(t)]))

\* u is t with every upper-case letter replaced by its lower-case one
IsLowerOf(u, t) ==
    /\ Len(u) = Len(t)
    /\ \A k \in DOMAIN t : u[k] = LowerChar(t[k])
    /\ \A k \in DOMAIN u : u[k] \notin {"A", "B"}

\* C30: for every object input, sanitize returns an object whose id is the
\* input id without its leading and trailing whitespace, case preserved, and
\* whose avatarUrl is the input avatarUrl trimmed and lower-cased; an id or
\* avatarUrl that is absent, undefined, null or empty becomes the empty string.
C30_ObjectFieldsNormalized ==
    (/\ ret.op = "sanitize"
     /\ ret.arg # NoObject
     /\ "prim" \notin DOMAIN ret.arg) =>
        /\ {"id", "avatarUrl"} \subseteq DOMAIN ret.value
        /\ IF "id" \notin DOMAIN ret.arg \/ ret.arg.id \in {Undefined, Null, <<>>}
           THEN ret.value.id = <<>>
           ELSE IsTrimOf(ret.value.id, ret.arg.id)
        /\ IF \/ "avatarUrl" \notin DOMAIN ret.arg
              \/ ret.arg.avatarUrl \in {Undefined, Null, <<>>}
           THEN ret.value.avatarUrl = <<>>
           ELSE \E a \in 1..(Len(ret.arg.avatarUrl) + 1), b \in 0..Len(ret.arg.avatarUrl) :
                  /\ IsTrimOf(SubSeq(ret.arg.avatarUrl, a, b), ret.arg.avatarUrl)
                  /\ IsLowerOf(ret.value.avatarUrl, SubSeq(ret.arg.avatarUrl, a, b))

\* a padded upper-case id kept its case, a padded upper-case url lost it
C30_Witness ==
    /\ ret.op = "sanitize"
    /\ ret.arg = [id |-> <<" ", " ", "B", "d">>, avatarUrl |-> <<" ", "A", " ">>]
    /\ ret.value = [id |-> <<"B", "d">>, avatarUrl |-> <<"a">>]

----------------------------------------------------------------------------
\* JsonWebTokenProvider: sign, then verify

\* the payloads handed to sign
JwtPayloads ==
    [userId : { <<"1">>, <<"2">> }, role : { USER_DEFAULT_ROLE, "administrador" }]
    \cup [userId : { <<"1">> }, role : { USER_DEFAULT_ROLE }, name : { <<"A">>, <<>> }]
    \cup { [userId |-> Undefined, role |-> UndefinedStr], EmptyObject }

\* the secretKey a provider is constructed with
JwtSecrets == { "b71d6620ed1f14726f299763bbeaff4a23d2a427", "k2", "" }

\* sign; libFault: jwt.sign throws
JwtSignOutcome(payload, secretKey, libFault) ==
    IF libFault
    THEN Rejected(<<>>, ServerError(PlainError("Erro inesperado")))
    ELSE Resolved(<<>>, JwtSign(payload, secretKey))

\* new JsonWebTokenProvider(secretKey).sign(payload)
ProviderSign(payload, secretKey, libFault) ==
    /\ ret = NoRet
    /\ ret' = [op |-> "jwt.sign", payload |-> payload, secretKey |-> secretKey,
               libFault |-> libFault,
               result |-> JwtSignOutcome(payload, secretKey, libFault)]
    /\ UNCHANGED <<env, db, users, minusOne, reqs, app, http>>

\* new JsonWebTokenProvider(secretKey).verify(token) of the token sign
\* returned, before or after its expiry
ProviderVerifySigned(secretKey, expired, libFault) ==
    /\ ret.op = "jwt.sign"
    /\ ret.result.kind = "resolved"
    /\ ret' = [op |-> "jwt.verify", token |-> <<"tok.signed">>, jwt |-> TRUE,
               payload |-> ret.payload, signer |-> ret.secretKey,
               secretKey |-> secretKey, expired |-> expired,
               libFault |-> libFault,
               result |-> JwtVerifyIssued(<<"tok.signed">>,
                                          [jwt |-> TRUE, expired |-> expired,
                                           signed |-> ret.result.value],
                                          secretKey, libFault)]
    /\ UNCHANGED <<env, db, users, minusOne, reqs, app, http>>

\* verify of the empty string, or of a string that is no JWT
ProviderVerifyOther(token, secretKey, libFault) ==
    /\ ret = NoRet
    /\ ret' = [op |-> "jwt.verify", token |-> token, jwt |-> FALSE,
               payload |-> EmptyObject, signer |-> "",
               secretKey |-> secretKey, expired |-> FALSE,
               libFault |-> libFault,
               result |-> JwtVerify(token, secretKey, env, libFault)]
    /\ UNCHANGED <<env, db, users, minusOne, reqs, app, http>>

NextJwt ==
    \/ Respond
    \/ \E payload \in JwtPayloads, secretKey \in JwtSecrets, libFault \in BOOLEAN :
           ProviderSign(payload, secretKey, libFault)
    \/ \E secretKey \in JwtSecrets, expired \in BOOLEAN, libFault \in BOOLEAN :
           ProviderVerifySigned(secretKey, expired, libFault)
    \/ \E token \in { <<>>, <<"tok.junk">> }, secretKey \in JwtSecrets,
          libFault \in BOOLEAN :
           ProviderVerifyOther(token, secretKey, libFault)

SpecJwt == Init /\ [][NextJwt]_vars

====
